---- MODULE Spec2Model ----
(***************************************************************************)
(* generate_patch_report.py: the extractor (extract_value,                 *)
(* parse_ansible_json) and the main routine that writes the CSV and the    *)
(* Markdown report.                                                        *)
(*                                                                         *)
(* A Python str is modelled as a sequence of atoms.  An atom is one        *)
(* character the code looks at (" ", "\t", "\n", ":", ".", ",", "-", "|")  *)
(* or a run of other characters (a word).  None of the strings the code    *)
(* searches for begins or ends inside a word used below, so startswith,    *)
(* `in`, split and strip on atom sequences agree with the same operations  *)
(* on the characters.  The whitespace of the model is the space, the tab   *)
(* and the line feed; the line feed is its only line break.                *)
(***************************************************************************)
EXTENDS Integers, Sequences, FiniteSets, TLC

\* ------------------------------------------------------------ bounds
MaxChunks == 2
MaxTasks == 3
MaxHosts == 2
MaxLines == 3

\* ------------------------------------------------- Python values
\* None, and "the key is not in the dict" (what dict.get replaces by its default).
None == <<"<None>">>
Absent == <<"<absent>">>
EmptyStr == <<>>

\* dict.get(key, default) for a value that may be absent.
Get(value, default) == IF value = Absent THEN default ELSE value

Ok(v) == [exc |-> "", val |-> v]
Raise(e) == [exc |-> e, val |-> <<>>]

IndexError == "list index out of range"
KeyErrorMinus1 == "-1"
NoneHasNoStartswith == "'NoneType' object has no attribute 'startswith'"
NoneHasNoStrip == "'NoneType' object has no attribute 'strip'"
StrHasNoGet == "'str' object has no attribute 'get'"
JSONDecodeError == "Expecting value: line 1 column 1 (char 0)"
PermissionError(file) == "[Errno 13] Permission denied: '" \o file \o "'"

\* ------------------------------------------------- str operations
Whitespace == {" ", "\t", "\n"}

\* str.startswith(prefix)
startswith(s, prefix) ==
    Len(s) >= Len(prefix) /\ SubSeq(s, 1, Len(prefix)) = prefix

\* sub in s
contains(s, sub) ==
    \E i \in 0..(Len(s) - Len(sub)) : SubSeq(s, i + 1, i + Len(sub)) = sub

\* Position of the first atom of s that is in set cs, 0 when there is none.
FirstIn(s, cs) ==
    IF \E i \in 1..Len(s) : s[i] \in cs
    THEN CHOOSE i \in 1..Len(s) : s[i] \in cs /\ \A j \in 1..(i - 1) : s[j] \notin cs
    ELSE 0

\* str.strip(): leading and trailing whitespace removed.
strip(s) ==
    IF \A i \in 1..Len(s) : s[i] \in Whitespace THEN EmptyStr
    ELSE LET first == CHOOSE i \in 1..Len(s) :
                          s[i] \notin Whitespace /\ \A j \in 1..(i - 1) : s[j] \in Whitespace
             last == CHOOSE i \in 1..Len(s) :
                          s[i] \notin Whitespace /\ \A j \in (i + 1)..Len(s) : s[j] \in Whitespace
         IN SubSeq(s, first, last)

\* str.split(sep, 1): the list of one or two parts.
split1(s, sep) ==
    LET i == FirstIn(s, {sep})
    IN IF i = 0 THEN <<s>> ELSE <<SubSeq(s, 1, i - 1), SubSeq(s, i + 1, Len(s))>>

\* str.split(sep)[0]: the part before the first sep, the whole string without one.
split_first(s, sep) ==
    LET i == FirstIn(s, {sep})
    IN IF i = 0 THEN s ELSE SubSeq(s, 1, i - 1)

\* str.splitlines(): no line for the empty string, none after a final line break.
RECURSIVE splitlines(_)
splitlines(s) ==
    IF s = EmptyStr THEN <<>>
    ELSE LET i == FirstIn(s, {"\n"})
         IN IF i = 0 THEN <<s>>
            ELSE <<SubSeq(s, 1, i - 1)>> \o splitlines(SubSeq(s, i + 1, Len(s)))

\* ------------------------------------------------- literals of the source
NA == <<"N/A">>
SP == <<" ">>
TAB == <<"\t">>
NL == <<"\n">>

TASK_REBOOT == "Display Last System Reboot Date and Time"
TASK_PKG == "Display Date of Last Package Upgrade"
TASK_KERNEL == "Display Current Active Kernel Version and Build Date"
TASK_CLAMAV == "Display Date of Last ClamAV Freshclam Update"
TASK_JAVA == "Display Java Running Status"
TASK_OTHER == "Gathering Facts"

LABEL_REBOOT == <<"Last", " ", "System", " ", "Reboot", " ", "Date/Time", ":">>
LABEL_PKG == <<"Date", " ", "of", " ", "Last", " ", "Package", " ", "Upgrade", ":">>
LABEL_KERNEL ==
    <<"Current", " ", "Active", " ", "Kernel", " ", "Version", " ", "and", " ",
      "Build", " ", "Date", ":">>
LABEL_CLAMAV ==
    <<"ClamAV", " ", "Freshclam", " ", "Last", " ", "Database", " ", "Update", ":">>
LABEL_JAVA == <<"Java", " ", "Running", " ", "Status", ":">>
Labels == {LABEL_REBOOT, LABEL_PKG, LABEL_KERNEL, LABEL_CLAMAV, LABEL_JAVA}

DNF_SENTINEL ==
    <<"N/A", " ", "-", " ", "Could", " ", "not", " ", "determine", " ", "from", " ",
      "DNF", " ", "history", ".">>
DB_NOT_FOUND == <<"database", " ", "file", " ", "not", " ", "found">>
JAVA_FOUND == <<"Yes", ",", " ", "Java", " ", "processes", " ", "found", ".">>
LAST_PKG == <<"Last", " ", "Pkg", ":", " ">>
LAST_AV == <<"Last", " ", "AV", ":", " ">>
YES == <<"Yes">>
NO == <<"No">>

\* ------------------------------------------------- extract_value
\* extract_value keeping the last matching line (not the code).
RECURSIVE extract_value_last(_, _)
extract_value_last(output_lines, prefix) ==
    IF output_lines = <<>> THEN Ok(NA)
    ELSE LET line == output_lines[Len(output_lines)]
         IN IF line = None THEN Raise(NoneHasNoStartswith)
            ELSE IF startswith(line, prefix)
                 THEN LET parts == split1(line, ":")
                      IN IF Len(parts) < 2 THEN Raise(IndexError)
                         ELSE Ok(strip(parts[2]))
                 ELSE extract_value_last(SubSeq(output_lines, 1, Len(output_lines) - 1),
                                         prefix)

\* Lines 15-20.
RECURSIVE extract_value(_, _)
extract_value(output_lines, prefix) ==
    IF output_lines = <<>> THEN Ok(NA)
    ELSE LET line == Head(output_lines)
         IN IF line = None THEN Raise(NoneHasNoStartswith)
            ELSE IF startswith(line, prefix)
                 THEN LET parts == split1(line, ":")
                      IN IF Len(parts) < 2 THEN Raise(IndexError)
                         ELSE Ok(strip(parts[2]))
                 ELSE extract_value(Tail(output_lines), prefix)

\* ------------------------------------------------- parse_ansible_json
\* A task outcome of a host: [name |-> task.name, msg |-> result.msg], msg a str,
\* None (JSON null) or Absent (no 'msg' key).

\* Lines 39-52: the five name checks made for one task outcome, in turn.
task_lines(all_debug_msgs, task_output) ==
    LET name == task_output.name
        a1 == IF name = TASK_REBOOT
              THEN Append(all_debug_msgs, Get(task_output.msg, None))
              ELSE all_debug_msgs
        a2 == IF name = TASK_PKG THEN Append(a1, Get(task_output.msg, None)) ELSE a1
        a3 == IF name = TASK_KERNEL THEN Append(a2, Get(task_output.msg, None)) ELSE a2
        msg == Get(task_output.msg, EmptyStr)
        a4 == IF name = TASK_CLAMAV THEN a3 \o splitlines(strip(msg)) ELSE a3
        a5 == IF name = TASK_JAVA THEN a4 \o splitlines(strip(msg)) ELSE a4
    IN IF name \in {TASK_CLAMAV, TASK_JAVA} /\ msg = None
       THEN Raise(NoneHasNoStrip)
       ELSE Ok(a5)

\* Lines 38-52, in name order instead of list order (not what the code does).
RECURSIVE lines_by_name(_, _, _)
lines_by_name(all_debug_msgs, tasks, names) ==
    IF names = <<>> THEN Ok(all_debug_msgs)
    ELSE IF tasks = <<>> THEN Ok(all_debug_msgs)
    ELSE LET of_name == SelectSeq(tasks, LAMBDA t : t.name = Head(names))
             step[i \in 0..Len(of_name)] ==
                 IF i = 0 THEN Ok(all_debug_msgs)
                 ELSE IF step[i - 1].exc # "" THEN step[i - 1]
                 ELSE task_lines(step[i - 1].val, of_name[i])
             r == step[Len(of_name)]
         IN IF r.exc # "" THEN r ELSE lines_by_name(r.val, tasks, Tail(names))

collect_by_name(all_debug_msgs, tasks) ==
    lines_by_name(all_debug_msgs, tasks,
                  <<TASK_REBOOT, TASK_PKG, TASK_KERNEL, TASK_CLAMAV, TASK_JAVA>>)

\* Lines 37-52: the loop over the host's own task outcomes, in list order.
RECURSIVE collect_debug_msgs(_, _)
collect_debug_msgs(all_debug_msgs, tasks) ==
    IF tasks = <<>> THEN Ok(all_debug_msgs)
    ELSE LET r == task_lines(all_debug_msgs, Head(tasks))
         IN IF r.exc # "" THEN r ELSE collect_debug_msgs(r.val, Tail(tasks))

\* Lines 63-65 with the scan-miss value "N/A" treated like the sentinel (not the code).
rocky_updated_status_na(last_pkg_upgrade) ==
    IF last_pkg_upgrade \notin {DNF_SENTINEL, NA}
    THEN LAST_PKG \o split_first(last_pkg_upgrade, " ")
    ELSE NA

\* Lines 63-65.
rocky_updated_status(last_pkg_upgrade) ==
    IF last_pkg_upgrade # DNF_SENTINEL
    THEN LAST_PKG \o split_first(last_pkg_upgrade, " ")
    ELSE NA

\* Lines 69-71.
clamav_updated_status(clamav_update) ==
    IF ~contains(clamav_update, DB_NOT_FOUND)
    THEN LAST_AV \o split_first(clamav_update, " ")
    ELSE NA

\* Line 75 with == in place of `in` (not the code).
java_running_status_eq(java_status) ==
    IF java_status = JAVA_FOUND THEN YES ELSE NO

\* Line 75.
java_running_status(java_status) ==
    IF contains(java_status, JAVA_FOUND) THEN YES ELSE NO

RecordKeys ==
    {"Rocky Updated", "ClamAV Updated", "Last Reboot", "Kernel Version", "Java Running"}

\* Lines 78-85: the dict stored under the host.
host_record(last_reboot_v, last_pkg_v, kernel_v, clamav_v, java_v) ==
    [k \in RecordKeys |->
        CASE k = "Rocky Updated" -> rocky_updated_status(last_pkg_v)
          [] k = "ClamAV Updated" -> clamav_updated_status(clamav_v)
          [] k = "Last Reboot" -> last_reboot_v
          [] k = "Kernel Version" -> kernel_v
          [] k = "Java Running" -> java_running_status(java_v)]

\* d[key] = value on a dict kept as the sequence of its items in insertion order.
dict_set(d, key, value) ==
    IF \E i \in 1..Len(d) : d[i].host = key
    THEN [i \in 1..Len(d) |-> IF d[i].host = key THEN [host |-> key, data |-> value] ELSE d[i]]
    ELSE Append(d, [host |-> key, data |-> value])

\* Line 25: json_data.get('plays', [])[0].get('tasks', {})[-1].get('hosts', {}).items()
select_hosts(json_data) ==
    LET plays == IF json_data.has_plays THEN json_data.plays ELSE <<>>
    IN IF plays = <<>> THEN Raise(IndexError)
       ELSE LET play == plays[1]
            IN IF ~play.has_tasks THEN Raise(KeyErrorMinus1)
               ELSE IF play.tasks = <<>> THEN Raise(IndexError)
               ELSE LET group == play.tasks[Len(play.tasks)]
                    IN Ok(IF group.has_hosts THEN group.hosts ELSE <<>>)

\* Lines 37-85 for one host: the Diagnostic Line Set, the five raw values and the
\* record, or the exception that ends the call.
Unbound == <<"<unbound>">>
NoRaw == [l \in Labels |-> Unbound]
NoRecord == [k \in RecordKeys |-> Unbound]

process_host(host_data) ==
    IF ~host_data.is_dict
    THEN [exc |-> StrHasNoGet, collected |-> FALSE, lines |-> <<>>, raw |-> NoRaw,
          data |-> NoRecord]
    ELSE LET c == collect_debug_msgs(<<>>, IF host_data.has_tasks THEN host_data.tasks
                                                                  ELSE <<>>)
         IN IF c.exc # ""
            THEN [exc |-> c.exc, collected |-> FALSE, lines |-> <<>>, raw |-> NoRaw,
                  data |-> NoRecord]
            ELSE LET e == [l \in Labels |-> extract_value(c.val, l)]
                 IN IF \E l \in Labels : e[l].exc # ""
                    THEN [exc |-> e[CHOOSE l \in Labels : e[l].exc # ""].exc,
                          collected |-> TRUE, lines |-> c.val, raw |-> NoRaw,
                          data |-> NoRecord]
                    ELSE [exc |-> "", collected |-> TRUE, lines |-> c.val,
                          raw |-> [l \in Labels |-> e[l].val],
                          data |-> host_record(e[LABEL_REBOOT].val, e[LABEL_PKG].val,
                                               e[LABEL_KERNEL].val, e[LABEL_CLAMAV].val,
                                               e[LABEL_JAVA].val)]

\* ------------------------------------------------- the main routine's literals
JSON_INPUT_FILE == "validation_raw_results.json"
CSV_OUTPUT_FILE == "monthly_patching_report.csv"
MARKDOWN_OUTPUT_FILE == "monthly_patching_report.md"
CHECKLIST_DATE == <<"%Y-%m-%d">>

fieldnames ==
    <<"Host", "Rocky Updated", "ClamAV Updated", "Last Reboot", "Kernel Version",
      "Java Running">>

GuidanceMsg ==
    <<"Error: ", JSON_INPUT_FILE,
      " not found. Please run the Ansible playbook with JSON output first.">>
ErrorMsg(e) == <<"An error occurred: ", e>>
CsvGeneratedMsg == <<"CSV report generated: ", CSV_OUTPUT_FILE>>
MarkdownGeneratedMsg == <<"Markdown report generated: ", MARKDOWN_OUTPUT_FILE>>

\* Lines 98-104 without writer.writeheader() (not the code).
csv_rows_no_header(parsed) ==
    [i \in 1..Len(parsed) |->
        LET row == parsed[i].data @@ ("Host" :> parsed[i].host)
        IN [k \in 1..Len(fieldnames) |-> row[fieldnames[k]]]]

\* Lines 98-104: the header row, then row = {'Host': host}; row.update(data) written
\* by the DictWriter in the order of fieldnames.
csv_row(host, data) ==
    LET row == data @@ ("Host" :> host)
    IN [i \in 1..Len(fieldnames) |-> row[fieldnames[i]]]

csv_header == [i \in 1..Len(fieldnames) |-> <<fieldnames[i]>>]

csv_rows(parsed) ==
    <<csv_header>> \o [i \in 1..Len(parsed) |-> csv_row(parsed[i].host, parsed[i].data)]

\* Lines 109-116: what each mdfile.write call writes.
MD_BAR == <<" ", "|", " ">>
md_title == <<"#", " ", "Monthly", " ", "Patching", " ", "Report", " ", "-", " ">>
                \o CHECKLIST_DATE \o <<"\n", "\n">>
md_header ==
    <<"|", " ", "Host">> \o MD_BAR \o <<"Rocky", " ", "Updated">> \o MD_BAR
        \o <<"ClamAV", " ", "Updated">> \o MD_BAR \o <<"Last", " ", "Reboot">> \o MD_BAR
        \o <<"Kernel", " ", "Version">> \o MD_BAR \o <<"Java", " ", "Running">>
        \o <<" ", "|", "\n">>
md_separator == <<"|---|---|---|---|---|---|", "\n">>
md_note ==
    <<"\n", "\n",
      "*Note: This report covers Rocky Linux servers and ClamAV status only. Other systems (Firewalls, vSphere, etc.) require separate validation methods.*">>

md_row(host, data) ==
    <<"|", " ">> \o host \o MD_BAR \o data["Rocky Updated"] \o MD_BAR
        \o data["ClamAV Updated"] \o MD_BAR \o data["Last Reboot"] \o MD_BAR
        \o data["Kernel Version"] \o MD_BAR \o data["Java Running"] \o <<" ", "|", "\n">>

md_writes(parsed) ==
    <<md_title, md_header, md_separator>>
        \o [i \in 1..Len(parsed) |-> md_row(parsed[i].host, parsed[i].data)]
        \o <<<<"\n">>, <<"---">>, md_note>>

\* ------------------------------------------------- the inputs
\* A Result Document, as json.load returns it:
\*   document  [has_plays, plays]   play  [has_tasks, tasks]   task group  [has_hosts, hosts]
\*   hosts: the items of the host mapping in document order, [host, host_data]
\*   host_data [is_dict, has_tasks, tasks]   (is_dict FALSE: a str where a dict belongs)
\*   task outcome [name, msg]
WEB01 == <<"web01">>
DB01 == <<"db01">>
APP01 == <<"app01">>
HostNames == {WEB01, DB01, APP01}

DATE_SP_TIME == <<"2024-03-02", " ", "10", ":", "00">>
DATE_TAB_TIME == <<"2024-03-02", "\t", "10", ":", "00">>
Chunks == {SP, NL, DATE_SP_TIME, DATE_TAB_TIME, NA, DNF_SENTINEL, DB_NOT_FOUND, JAVA_FOUND}

\* The strings made of at most n chunks.
RECURSIVE ChunkTexts(_)
ChunkTexts(n) ==
    IF n = 0 THEN {EmptyStr}
    ELSE LET shorter == ChunkTexts(n - 1)
         IN shorter \cup {t \o c : t \in shorter, c \in Chunks}

SeqsUpTo(S, n) == UNION {[1..k -> S] : k \in 0..n}

TaskNames == {TASK_REBOOT, TASK_PKG, TASK_KERNEL, TASK_CLAMAV, TASK_JAVA}

Dict(tasks) == [is_dict |-> TRUE, has_tasks |-> TRUE, tasks |-> tasks]
NoTasksKey == [is_dict |-> TRUE, has_tasks |-> FALSE, tasks |-> <<>>]
NotADict == [is_dict |-> FALSE, has_tasks |-> FALSE, tasks |-> <<>>]
Group(hosts) == [has_hosts |-> TRUE, hosts |-> hosts]
NoHostsKey == [has_hosts |-> FALSE, hosts |-> <<>>]
Play(tasks) == [has_tasks |-> TRUE, tasks |-> tasks]
NoTasksPlay == [has_tasks |-> FALSE, tasks |-> <<>>]
Document(plays) == [has_plays |-> TRUE, plays |-> plays]
NoPlaysKey == [has_plays |-> FALSE, plays |-> <<>>]

\* The host of the end-to-end example.
ExampleTasks ==
    <<[name |-> TASK_OTHER, msg |-> Absent],
      [name |-> TASK_REBOOT,
       msg |-> LABEL_REBOOT \o <<" ", "2024-03-01", " ", "10", ":", "00", ":", "00">>],
      [name |-> TASK_PKG,
       msg |-> LABEL_PKG \o <<" ", "2024-03-02", " ", "00", ":", "00", ":", "00">>],
      [name |-> TASK_KERNEL, msg |-> LABEL_KERNEL \o <<" ", "5", ".", "14", ".", "0">>],
      [name |-> TASK_CLAMAV,
       msg |-> LABEL_CLAMAV \o <<" ", "2024-03-03", " ", "01", ":", "00", ":", "00", " ",
                                 "(older", " ", "db", " ", "removed)">>],
      [name |-> TASK_JAVA, msg |-> LABEL_JAVA \o SP \o JAVA_FOUND]>>

\* One host, one task outcome: every task name, every label or none, every value.
ValueHostDatas ==
    {Dict(<<[name |-> n, msg |-> l \o v]>>) :
        n \in TaskNames, l \in Labels \cup {EmptyStr}, v \in ChunkTexts(MaxChunks)}

\* One host, up to MaxTasks task outcomes in every order.
ALL_FIVE ==
    LABEL_REBOOT \o SP \o NA \o NL \o LABEL_PKG \o SP \o DNF_SENTINEL \o NL
        \o LABEL_KERNEL \o NL \o LABEL_CLAMAV \o SP \o DB_NOT_FOUND \o NL
        \o LABEL_JAVA \o SP \o JAVA_FOUND
OrderOutputs ==
    {[name |-> TASK_REBOOT, msg |-> LABEL_REBOOT \o SP \o DATE_SP_TIME],
     [name |-> TASK_REBOOT, msg |-> Absent],
     [name |-> TASK_PKG, msg |-> LABEL_PKG \o SP \o DATE_TAB_TIME],
     [name |-> TASK_KERNEL, msg |-> <<"5", ".", "14", ".", "0">>],
     [name |-> TASK_CLAMAV,
      msg |-> LABEL_CLAMAV \o SP \o DATE_SP_TIME \o NL \o LABEL_REBOOT \o SP \o NA \o NL],
     [name |-> TASK_CLAMAV, msg |-> Absent],
     [name |-> TASK_CLAMAV, msg |-> ALL_FIVE],
     [name |-> TASK_JAVA, msg |-> None],
     [name |-> TASK_JAVA, msg |-> SP \o LABEL_JAVA \o SP \o JAVA_FOUND \o NL \o SP \o LABEL_PKG],
     [name |-> TASK_OTHER, msg |-> LABEL_KERNEL \o SP \o NA]}
OrderHostDatas == {Dict(ts) : ts \in SeqsUpTo(OrderOutputs, MaxTasks)}

\* Up to MaxHosts hosts in every order, in documents of every shape.
SmallHostDatas ==
    {NoTasksKey, NotADict, Dict(ExampleTasks),
     Dict(<<[name |-> TASK_KERNEL, msg |-> Absent]>>)}
HostItems ==
    UNION {{[i \in 1..k |-> [host |-> names[i], host_data |-> hds[i]]] :
               names \in {ns \in [1..k -> HostNames] :
                             \A i, j \in 1..k : i # j => ns[i] # ns[j]},
               hds \in [1..k -> SmallHostDatas]} :
           k \in 0..MaxHosts}
DecoyGroup == Group(<<[host |-> APP01, host_data |-> Dict(<<>>)]>>)
DecoyPlay == Play(<<Group(<<[host |-> DB01, host_data |-> Dict(<<>>)]>>)>>)
ShapeDocuments ==
    {NoPlaysKey, Document(<<>>), Document(<<NoTasksPlay>>), Document(<<Play(<<>>)>>),
     Document(<<Play(<<NoHostsKey>>)>>), Document(<<Play(<<DecoyGroup, NoHostsKey>>)>>)}
    \cup {Document(<<Play(ts)>> \o more) :
             ts \in UNION {{<<Group(h)>>, <<DecoyGroup, Group(h)>>} : h \in HostItems},
             more \in {<<>>, <<DecoyPlay>>}}

OneHost(hd) == Document(<<Play(<<Group(<<[host |-> WEB01, host_data |-> hd]>>)>>)>>)

Documents ==
    ShapeDocuments \cup {OneHost(hd) : hd \in ValueHostDatas \cup OrderHostDatas}

InputFiles ==
    {[exists |-> FALSE, valid_json |-> FALSE, doc |-> NoPlaysKey],
     [exists |-> TRUE, valid_json |-> FALSE, doc |-> NoPlaysKey]}
    \cup {[exists |-> TRUE, valid_json |-> TRUE, doc |-> d] : d \in Documents}

\* A report file of an earlier run, or none.
NoFile == [exists |-> FALSE, writes |-> <<>>]
StaleFile == [exists |-> TRUE, writes |-> <<<<<<"stale">>>>>>]

\* ------------------------------------------------- the state
VARIABLES
    pc,                 \* where the main routine is
    input_file,         \* validation_raw_results.json on disk
    files,              \* the two report files on disk
    called,             \* the calls the run has made so far
    host_items,         \* line 25: the items the loop iterates over
    idx,                \* the next item of host_items
    results,            \* parse_ansible_json's results, in insertion order
    all_debug_msgs,     \* the locals of the last loop iteration
    raw,                \* last_reboot, last_pkg_upgrade, kernel_version,
                        \* clamav_update, java_status, by label
    parsed_results,     \* line 94
    stdout,             \* the lines printed
    output_lines,       \* a direct call of extract_value: its arguments,
    prefix,
    returned            \* and what it returned ("pending" before it does)

vars ==
    <<pc, input_file, files, called, host_items, idx, results, all_debug_msgs, raw,
      parsed_results, stdout, output_lines, prefix, returned>>
parse_locals == <<host_items, idx, results, all_debug_msgs, raw>>
direct_call == <<output_lines, prefix, returned>>

Pending == [exc |-> "pending", val |-> EmptyStr]

InitRun(inputs) ==
    /\ pc = "start"
    /\ input_file \in inputs
    /\ \E f \in {NoFile, StaleFile} : files = [n \in {CSV_OUTPUT_FILE, MARKDOWN_OUTPUT_FILE} |-> f]
    /\ called = {}
    /\ host_items = <<>>
    /\ idx = 1
    /\ results = <<>>
    /\ all_debug_msgs = <<>>
    /\ raw = NoRaw
    /\ parsed_results = <<>>
    /\ stdout = <<>>

Init ==
    /\ InitRun(InputFiles)
    /\ output_lines = <<>>
    /\ prefix = EmptyStr
    /\ returned = Pending

\* The missing file handled by the catch-all handler (not the code).
InputNotFoundCatchAll ==
    /\ pc = "start"
    /\ ~input_file.exists
    /\ called' = called \cup {"open " \o JSON_INPUT_FILE}
    /\ stdout' = Append(stdout, ErrorMsg("[Errno 2] No such file or directory"))
    /\ pc' = "done"
    /\ UNCHANGED <<input_file, files, parse_locals, parsed_results, direct_call>>

\* Lines 91 and 120-121: the input file is not there.
InputNotFound ==
    /\ pc = "start"
    /\ ~input_file.exists
    /\ called' = called \cup {"open " \o JSON_INPUT_FILE}
    /\ stdout' = Append(stdout, GuidanceMsg)
    /\ pc' = "done"
    /\ UNCHANGED <<input_file, files, parse_locals, parsed_results, direct_call>>

\* Lines 91-92 and 122-123: json.load rejects the file.
LoadRaises ==
    /\ pc = "start"
    /\ input_file.exists /\ ~input_file.valid_json
    /\ called' = called \cup {"open " \o JSON_INPUT_FILE, "json.load"}
    /\ stdout' = Append(stdout, ErrorMsg(JSONDecodeError))
    /\ pc' = "done"
    /\ UNCHANGED <<input_file, files, parse_locals, parsed_results, direct_call>>

\* Lines 91-92.
Load ==
    /\ pc = "start"
    /\ input_file.exists /\ input_file.valid_json
    /\ called' = called \cup {"open " \o JSON_INPUT_FILE, "json.load"}
    /\ pc' = "parse"
    /\ UNCHANGED <<input_file, files, parse_locals, parsed_results, stdout, direct_call>>

\* Lines 94, 23 and 25: the call, and the task group selected.
SelectHosts ==
    /\ pc = "parse"
    /\ select_hosts(input_file.doc).exc = ""
    /\ called' = called \cup {"parse_ansible_json"}
    /\ host_items' = select_hosts(input_file.doc).val
    /\ idx' = 1
    /\ results' = <<>>
    /\ pc' = "hosts"
    /\ UNCHANGED <<input_file, files, all_debug_msgs, raw, parsed_results, stdout,
                   direct_call>>

\* Line 25 raises: lines 122-123.
SelectHostsRaises ==
    /\ pc = "parse"
    /\ select_hosts(input_file.doc).exc # ""
    /\ called' = called \cup {"parse_ansible_json"}
    /\ stdout' = Append(stdout, ErrorMsg(select_hosts(input_file.doc).exc))
    /\ pc' = "done"
    /\ UNCHANGED <<input_file, files, parse_locals, parsed_results, direct_call>>

\* Lines 37-85: one iteration of the loop over the hosts.
ProcessHost ==
    /\ pc = "hosts"
    /\ idx <= Len(host_items)
    /\ LET h == process_host(host_items[idx].host_data)
       IN /\ h.exc = ""
          /\ all_debug_msgs' = h.lines
          /\ raw' = h.raw
          /\ results' = dict_set(results, host_items[idx].host, h.data)
    /\ idx' = idx + 1
    /\ UNCHANGED <<pc, input_file, files, called, host_items, parsed_results, stdout,
                   direct_call>>

\* An iteration raises and the host is skipped (not the code).
ProcessHostSkips ==
    /\ pc = "hosts"
    /\ idx <= Len(host_items)
    /\ process_host(host_items[idx].host_data).exc # ""
    /\ idx' = idx + 1
    /\ UNCHANGED <<pc, input_file, files, called, host_items, results, all_debug_msgs,
                   raw, parsed_results, stdout, direct_call>>

\* An iteration raises: the call ends, its results with it (lines 122-123).
ProcessHostRaises ==
    /\ pc = "hosts"
    /\ idx <= Len(host_items)
    /\ LET h == process_host(host_items[idx].host_data)
       IN /\ h.exc # ""
          /\ all_debug_msgs' = IF h.collected THEN h.lines ELSE all_debug_msgs
          /\ stdout' = Append(stdout, ErrorMsg(h.exc))
    /\ results' = <<>>
    /\ pc' = "done"
    /\ UNCHANGED <<input_file, files, called, host_items, idx, raw, parsed_results,
                   direct_call>>

\* Lines 86 and 94.
ReturnResults ==
    /\ pc = "hosts"
    /\ idx > Len(host_items)
    /\ parsed_results' = results
    /\ pc' = "write_csv"
    /\ UNCHANGED <<input_file, files, called, parse_locals, stdout, direct_call>>

\* Lines 97-105.
WriteCsv ==
    /\ pc = "write_csv"
    /\ called' = called \cup {"open " \o CSV_OUTPUT_FILE}
    /\ files' = [files EXCEPT ![CSV_OUTPUT_FILE] =
                     [exists |-> TRUE, writes |-> csv_rows(parsed_results)]]
    /\ stdout' = Append(stdout, CsvGeneratedMsg)
    /\ pc' = "write_md"
    /\ UNCHANGED <<input_file, parse_locals, parsed_results, direct_call>>

\* Line 97 raises (the file cannot be opened for writing): lines 122-123.
WriteCsvRaises ==
    /\ pc = "write_csv"
    /\ called' = called \cup {"open " \o CSV_OUTPUT_FILE}
    /\ stdout' = Append(stdout, ErrorMsg(PermissionError(CSV_OUTPUT_FILE)))
    /\ pc' = "done"
    /\ UNCHANGED <<input_file, files, parse_locals, parsed_results, direct_call>>

\* Lines 108-117.
WriteMarkdown ==
    /\ pc = "write_md"
    /\ called' = called \cup {"open " \o MARKDOWN_OUTPUT_FILE}
    /\ files' = [files EXCEPT ![MARKDOWN_OUTPUT_FILE] =
                     [exists |-> TRUE, writes |-> md_writes(parsed_results)]]
    /\ stdout' = Append(stdout, MarkdownGeneratedMsg)
    /\ pc' = "done"
    /\ UNCHANGED <<input_file, parse_locals, parsed_results, direct_call>>

\* Line 108 raises: lines 122-123.
WriteMarkdownRaises ==
    /\ pc = "write_md"
    /\ called' = called \cup {"open " \o MARKDOWN_OUTPUT_FILE}
    /\ stdout' = Append(stdout, ErrorMsg(PermissionError(MARKDOWN_OUTPUT_FILE)))
    /\ pc' = "done"
    /\ UNCHANGED <<input_file, files, parse_locals, parsed_results, direct_call>>

Next ==
    \/ InputNotFound
    \/ LoadRaises
    \/ Load
    \/ SelectHosts
    \/ SelectHostsRaises
    \/ ProcessHost
    \/ ProcessHostRaises
    \/ ReturnResults
    \/ WriteCsv
    \/ WriteCsvRaises
    \/ WriteMarkdown
    \/ WriteMarkdownRaises

Spec == Init /\ [][Next]_vars

\* ------------------------------------------------- a direct call of extract_value
LabelNoColon == <<"Java", " ", "Running", " ", "Status">>
ExtractValues == {EmptyStr, SP \o DATE_SP_TIME \o SP, TAB \o JAVA_FOUND \o NL}
ExtractLines ==
    {l \o v : l \in {LABEL_REBOOT, LABEL_JAVA}, v \in ExtractValues}
    \cup {SP \o LABEL_REBOOT \o SP \o NA,
          NA \o SP \o LABEL_JAVA \o SP \o JAVA_FOUND,
          LabelNoColon \o SP \o <<":">> \o SP \o NA,
          LABEL_KERNEL \o LABEL_REBOOT \o DATE_SP_TIME,
          EmptyStr}

InitExtract ==
    /\ pc = "start"
    /\ input_file = [exists |-> FALSE, valid_json |-> FALSE, doc |-> NoPlaysKey]
    /\ files = [n \in {CSV_OUTPUT_FILE, MARKDOWN_OUTPUT_FILE} |-> NoFile]
    /\ called = {}
    /\ host_items = <<>>
    /\ idx = 1
    /\ results = <<>>
    /\ all_debug_msgs = <<>>
    /\ raw = NoRaw
    /\ parsed_results = <<>>
    /\ stdout = <<>>
    /\ output_lines \in SeqsUpTo(ExtractLines, MaxLines)
    /\ prefix \in Labels
    /\ returned = Pending

\* Lines 15-20.
CallExtractValue ==
    /\ returned = Pending
    /\ returned' = extract_value(output_lines, prefix)
    /\ UNCHANGED <<pc, input_file, files, called, parse_locals, parsed_results, stdout,
                   output_lines, prefix>>

NextExtract == CallExtractValue

SpecExtract == InitExtract /\ [][NextExtract]_vars

\* ------------------------------------------------- what the claims speak of
\* The input is a Result Document json.load accepts.
Loaded == input_file.exists /\ input_file.valid_json

\* The selected task group of the document: the last task of the first play.
SelectedHosts ==
    LET tasks == input_file.doc.plays[1].tasks
    IN IF tasks[Len(tasks)].has_hosts THEN tasks[Len(tasks)].hosts ELSE <<>>

\* The document has a play, and the first play's task sequence is not empty.
HasTaskGroup ==
    /\ Loaded
    /\ input_file.doc.has_plays /\ input_file.doc.plays # <<>>
    /\ input_file.doc.plays[1].has_tasks /\ input_file.doc.plays[1].tasks # <<>>

\* Every host of the selected task group has a record (a dict) whose task outcomes
\* carry a str as 'msg' or no 'msg' at all.
WellFormedHosts ==
    \A i \in 1..Len(SelectedHosts) :
        /\ SelectedHosts[i].host_data.is_dict
        /\ \A t \in 1..Len(SelectedHosts[i].host_data.tasks) :
               SelectedHosts[i].host_data.tasks[t].msg # None

\* parse_ansible_json was called and raised; it was called and returned.
ParseRaised ==
    "parse_ansible_json" \in called /\ pc = "done" /\ ("open " \o CSV_OUTPUT_FILE) \notin called
ParseReturned == pc \in {"write_csv", "write_md"} \/ ("open " \o CSV_OUTPUT_FILE) \in called

\* The run printed both confirmation lines: both writes were completed.
BothWritten == pc = "done" /\ stdout = <<CsvGeneratedMsg, MarkdownGeneratedMsg>>

\* The loop has just stored the record of a host; that host, its task outcomes, its record.
HostStored == idx > 1 /\ results # <<>>
StoredHost == host_items[idx - 1]
StoredTasks ==
    IF StoredHost.host_data.has_tasks THEN StoredHost.host_data.tasks ELSE <<>>
StoredData == results[Len(results)].data

IsStr(v) == v # None /\ v # Absent /\ v # Unbound

\* The first whitespace-delimited token of s (s.split()[0], "" when there is none).
FirstToken(s) ==
    LET t == strip(s)
        i == FirstIn(t, Whitespace)
    IN IF i = 0 THEN t ELSE SubSeq(t, 1, i - 1)

\* sub occurs in s: s is some text, then sub, then some text.
Occurs(sub, s) ==
    \E i \in 0..Len(s), j \in 1..(Len(s) + 1) :
        i < j /\ SubSeq(s, 1, i) \o sub \o SubSeq(s, j, Len(s)) = s

\* No line of the Diagnostic Line Set starts with a Field Label.
NoLabelLine(lines) ==
    \A i \in 1..Len(lines) : \A l \in Labels : ~startswith(lines[i], l)

\* C1: for every Result Document with a play whose task sequence is non-empty,
\* parse_ansible_json does not raise, and returns exactly one record per host of the
\* selected task group, every field a string.
C1_NeverRaisesOneRecordPerHost ==
    HasTaskGroup /\ WellFormedHosts =>
        /\ ~ParseRaised
        /\ ParseReturned =>
               /\ Len(parsed_results) = Len(SelectedHosts)
               /\ \A i \in 1..Len(parsed_results) :
                      /\ parsed_results[i].host = SelectedHosts[i].host
                      /\ \A j \in 1..Len(parsed_results) :
                             parsed_results[j].host = parsed_results[i].host => j = i
                      /\ IsStr(parsed_results[i].host)
                      /\ DOMAIN parsed_results[i].data = RecordKeys
                      /\ \A k \in RecordKeys : IsStr(parsed_results[i].data[k])

\* C2: 'Rocky Updated' is "Last Pkg: " + the first whitespace-delimited token of the raw
\* package-upgrade value iff that value differs from the DNF sentinel, else "N/A".
C2_RockyUpdatedFirstToken ==
    HostStored =>
        StoredData["Rocky Updated"] =
            IF raw[LABEL_PKG] # DNF_SENTINEL
            THEN LAST_PKG \o FirstToken(raw[LABEL_PKG])
            ELSE NA

\* C3: 'ClamAV Updated' is "Last AV: " + the first whitespace-delimited token of the raw
\* ClamAV value iff that value does not contain "database file not found", else "N/A";
\* with no ClamAV line the raw value is "N/A" and the field "Last AV: N/A".
C3_ClamavUpdatedFirstToken ==
    HostStored =>
        /\ StoredData["ClamAV Updated"] =
               IF ~Occurs(DB_NOT_FOUND, raw[LABEL_CLAMAV])
               THEN LAST_AV \o FirstToken(raw[LABEL_CLAMAV])
               ELSE NA
        /\ (\A i \in 1..Len(StoredTasks) : StoredTasks[i].name # TASK_CLAMAV)
           /\ (\A i \in 1..Len(all_debug_msgs) : ~startswith(all_debug_msgs[i], LABEL_CLAMAV))
               => raw[LABEL_CLAMAV] = NA /\ StoredData["ClamAV Updated"] = LAST_AV \o NA

\* The expected record of a host with no labelled line, as the claim has it and as
\* the code has it.
DefaultRecord(rocky, clamav) ==
    [k \in RecordKeys |->
        CASE k = "Rocky Updated" -> rocky
          [] k = "ClamAV Updated" -> clamav
          [] k = "Last Reboot" -> NA
          [] k = "Kernel Version" -> NA
          [] k = "Java Running" -> NO]

\* C4 as claimed: a host with no line starting with a Field Label gets Last Reboot and
\* Kernel Version "N/A" and the defaults Rocky Updated "N/A", ClamAV Updated "N/A",
\* Java Running "No".
C4_NoLabelAllNA ==
    HostStored /\ NoLabelLine(all_debug_msgs) => StoredData = DefaultRecord(NA, NA)

\* C4 as amended: such a host gets Last Reboot and Kernel Version "N/A", Rocky Updated
\* "Last Pkg: N/A", ClamAV Updated "Last AV: N/A" and Java Running "No".
C4_NoLabelQuirk ==
    HostStored /\ NoLabelLine(all_debug_msgs) =>
        StoredData = DefaultRecord(<<"Last", " ", "Pkg", ":", " ", "N/A">>,
                                   <<"Last", " ", "AV", ":", " ", "N/A">>)

\* A host with lines, none of them labelled, has its record.
C4_Witness == HostStored /\ NoLabelLine(all_debug_msgs) /\ all_debug_msgs # <<>>

\* C5: 'Java Running' is "Yes" iff the raw Java value contains
\* "Yes, Java processes found.", and "No" for every other raw value.
C5_JavaRunningYesIffFound ==
    HostStored =>
        /\ StoredData["Java Running"] \in {YES, NO}
        /\ StoredData["Java Running"] = YES <=> Occurs(JAVA_FOUND, raw[LABEL_JAVA])

\* "Yes" for a raw value that holds the phrase among other text.
C5_Witness ==
    /\ HostStored
    /\ StoredData["Java Running"] = YES
    /\ raw[LABEL_JAVA] # JAVA_FOUND

\* The lines one task outcome contributes.
Contribution(task_output) ==
    IF task_output.name \in {TASK_REBOOT, TASK_PKG, TASK_KERNEL}
    THEN <<Get(task_output.msg, None)>>
    ELSE IF task_output.name \in {TASK_CLAMAV, TASK_JAVA}
    THEN splitlines(strip(Get(task_output.msg, EmptyStr)))
    ELSE <<>>

RECURSIVE Flatten(_)
Flatten(seqs) == IF seqs = <<>> THEN <<>> ELSE Head(seqs) \o Flatten(Tail(seqs))

\* The contributed lines in the order the five task names are checked.
NameOrderLines(tasks) ==
    LET names == <<TASK_REBOOT, TASK_PKG, TASK_KERNEL, TASK_CLAMAV, TASK_JAVA>>
        of(n) == SelectSeq(tasks, LAMBDA t : t.name = n)
    IN Flatten([k \in 1..Len(names) |->
                   Flatten([i \in 1..Len(of(names[k])) |-> Contribution(of(names[k])[i])])])

Reorderings(tasks) ==
    {[i \in 1..Len(tasks) |-> tasks[p[i]]] :
        p \in {q \in [1..Len(tasks) -> 1..Len(tasks)] :
                  \A i, j \in 1..Len(tasks) : i # j => q[i] # q[j]}}

\* C8 as claimed: the Diagnostic Line Set lists the lines in the order the five task
\* names are checked, whatever the order of the host's task list, so that a host whose
\* task list is a permutation of this one gets the same record.
C8_NameOrder ==
    HostStored =>
        /\ all_debug_msgs = NameOrderLines(StoredTasks)
        /\ \A ts \in Reorderings(StoredTasks) :
               LET h == process_host(Dict(ts))
               IN h.exc = "" => h.lines = all_debug_msgs /\ h.data = StoredData

\* C8 as amended: the Diagnostic Line Set lists the lines in the order of the host's
\* task list, each task outcome contributing its lines in turn.
C8_ListOrder ==
    HostStored =>
        all_debug_msgs =
            Flatten([i \in 1..Len(StoredTasks) |-> Contribution(StoredTasks[i])])

\* A host whose lines are not in name order, and whose record differs from the one
\* the name order would give.
C8_Witness ==
    /\ HostStored
    /\ all_debug_msgs # NameOrderLines(StoredTasks)
    /\ \E ts \in Reorderings(StoredTasks) :
           process_host(Dict(ts)).exc = "" /\ process_host(Dict(ts)).data # StoredData

\* The report files are as they were before the run, and were not opened.
InitialFiles == [n \in {CSV_OUTPUT_FILE, MARKDOWN_OUTPUT_FILE} |-> NoFile]
StaleFiles == [n \in {CSV_OUTPUT_FILE, MARKDOWN_OUTPUT_FILE} |-> StaleFile]
ReportsUntouched ==
    /\ files \in {InitialFiles, StaleFiles}
    /\ ("open " \o CSV_OUTPUT_FILE) \notin called
    /\ ("open " \o MARKDOWN_OUTPUT_FILE) \notin called

\* C6: when the input file does not exist, the run ends having printed the guidance
\* message and nothing else, parse_ansible_json is never called, and neither report
\* file is opened, created or overwritten at any point.
C6_MissingInputGuidanceOnly ==
    ~input_file.exists =>
        /\ stdout = IF pc = "done" THEN <<GuidanceMsg>> ELSE <<>>
        /\ pc \in {"start", "done"}
        /\ "parse_ansible_json" \notin called
        /\ "json.load" \notin called
        /\ ReportsUntouched

\* The run with no input file has ended, stale reports of an earlier run still there.
C6_Witness == ~input_file.exists /\ pc = "done" /\ files = StaleFiles

\* C7: in a run that completes both writes, the CSV holds the header row and then one
\* row per host of the returned mapping, the Markdown table one row per host, in the
\* order of the hosts in the selected task group, each row with the host's record
\* fields verbatim, and the mapping is as parse_ansible_json returned it.
C7_RowsFollowMapping ==
    BothWritten =>
        LET csv == files[CSV_OUTPUT_FILE].writes
            md == files[MARKDOWN_OUTPUT_FILE].writes
            n == Len(SelectedHosts)
        IN /\ parsed_results = results
           /\ Len(parsed_results) = n
           /\ Len(csv) = n + 1
           /\ csv[1] = <<<<"Host">>, <<"Rocky Updated">>, <<"ClamAV Updated">>,
                         <<"Last Reboot">>, <<"Kernel Version">>, <<"Java Running">>>>
           /\ Len(md) = n + 6
           /\ \A i \in 1..n :
                  LET host == SelectedHosts[i].host
                      data == parsed_results[i].data
                      cells == <<host, data["Rocky Updated"], data["ClamAV Updated"],
                                 data["Last Reboot"], data["Kernel Version"],
                                 data["Java Running"]>>
                  IN /\ parsed_results[i].host = host
                     /\ csv[i + 1] = cells
                     /\ md[i + 3] =
                            <<"|">> \o Flatten([k \in 1..6 |-> SP \o cells[k] \o <<" ", "|">>])
                                \o NL

\* Both writes completed for two hosts or more.
C7_Witness == BothWritten /\ Len(parsed_results) >= 2

\* The lines of the call that start with the label.
Matching == {i \in 1..Len(output_lines) : startswith(output_lines[i], prefix)}

\* v is s without its leading and trailing whitespace.
IsStripOf(v, s) ==
    /\ v = EmptyStr \/ (v[1] \notin Whitespace /\ v[Len(v)] \notin Whitespace)
    /\ \E a \in 0..Len(s), b \in 0..Len(s) :
           /\ a + Len(v) + b = Len(s)
           /\ SubSeq(s, a + 1, a + Len(v)) = v
           /\ \A i \in (1..a) \cup ((Len(s) - b + 1)..Len(s)) : s[i] \in Whitespace

\* C9 (extract_value called on text lines with a Field Label): the result is the
\* text after the first ":" of the first line starting with the label, stripped of
\* leading and trailing whitespace, "N/A" when no line starts with it; it never raises.
C9_FirstMatchAfterColon ==
    returned # Pending =>
        /\ returned.exc = ""
        /\ Matching = {} => returned.val = NA
        /\ Matching # {} =>
               LET first == CHOOSE i \in Matching : \A j \in Matching : i <= j
                   line == output_lines[first]
               IN \E c \in 1..Len(line) :
                      /\ line[c] = ":"
                      /\ \A j \in 1..(c - 1) : line[j] # ":"
                      /\ IsStripOf(returned.val, SubSeq(line, c + 1, Len(line)))

\* Two lines start with the label and carry different values, after a line that holds
\* the label but does not start with it; the first value is returned.
C9_Witness ==
    /\ returned # Pending
    /\ Cardinality(Matching) >= 2
    /\ \E k \in 1..Len(output_lines) :
           /\ \A i \in Matching : k < i
           /\ Occurs(prefix, output_lines[k])
    /\ \E i \in Matching : \E j \in Matching :
           /\ i < j
           /\ extract_value(<<output_lines[j]>>, prefix).val # returned.val
           /\ extract_value(<<output_lines[i]>>, prefix).val = returned.val
    /\ returned.val # EmptyStr

\* The record of a host of the selected task group is malformed (not a dict).
MalformedHost ==
    HasTaskGroup /\ \E i \in 1..Len(SelectedHosts) : ~SelectedHosts[i].host_data.is_dict

\* A report file could not be opened for writing.
OpenFailed ==
    \E i \in 1..Len(stdout) :
        stdout[i] \in {ErrorMsg(PermissionError(CSV_OUTPUT_FILE)),
                       ErrorMsg(PermissionError(MARKDOWN_OUTPUT_FILE))}

\* C10: when extraction fails (no play, no task group in the first play, a malformed
\* host record) the run ends in the catch-all handler with exactly one
\* "An error occurred" line, no host is skipped, no row is produced for any host and
\* neither report file is written; an empty host mapping is no failure: extraction
\* returns an empty mapping and, unless a report file cannot be opened, both files
\* are written with no host row.
C10_FailureStopsRun ==
    /\ Loaded /\ pc = "done" /\ (~HasTaskGroup \/ MalformedHost \/ ParseRaised) =>
           /\ ParseRaised
           /\ Len(stdout) = 1
           /\ Len(stdout[1]) = 2 /\ stdout[1][1] = "An error occurred: "
           /\ ReportsUntouched
           /\ parsed_results = <<>>
    /\ HasTaskGroup /\ SelectedHosts = <<>> =>
           /\ ~ParseRaised
           /\ pc = "done" /\ ~OpenFailed => BothWritten
           /\ BothWritten =>
                  /\ parsed_results = <<>>
                  /\ files[CSV_OUTPUT_FILE].writes = <<csv_header>>
                  /\ files[MARKDOWN_OUTPUT_FILE].writes =
                         <<md_title, md_header, md_separator, <<"\n">>, <<"---">>, md_note>>

\* A malformed host record ends the run after a well-formed host was processed.
C10_Witness ==
    /\ ParseRaised
    /\ MalformedHost
    /\ idx > 1
    /\ SelectedHosts[1].host_data.is_dict

====
